---------------------------- MODULE Spec2Model ----------------------------
(***************************************************************************)
(* Model of scraping-release.py: the per-target snapshot loop of main(),   *)
(* the retrying page fetch, the line diff of highlight_html_diff (difflib  *)
(* SequenceMatcher.get_opcodes over the readable-text keys of the raw      *)
(* lines) and its rendering.                                               *)
(*                                                                         *)
(* Text is a sequence of one-character strings.  A multi-character string  *)
(* inside a rendered result stands for that literal piece of output.       *)
(***************************************************************************)
EXTENDS Integers, Sequences, FiniteSets, TLC

(***************************************************************************)
(* Program constants.                                                      *)
(***************************************************************************)
MIN_IMAGE_WIDTH == 50

MIN_IMAGE_HEIGHT == 50

MAX_RETRIES == 5

(***************************************************************************)
(* Bounds of the model.                                                    *)
(***************************************************************************)
MaxRows == 2
MaxRuns == 2
MaxLines == 3

MaxImgs == 2

(***************************************************************************)
(* Text helpers.                                                           *)
(***************************************************************************)
NL == "\n"

Whitespace == {" ", "\n", "\t"}

Letters == {"a", "b", "c", "i", "p", "r", "s", "t", "x", "A", "B", "C"}

RECURSIVE Cat(_)
Cat(ss) == IF ss = <<>> THEN <<>> ELSE Head(ss) \o Cat(Tail(ss))

RECURSIVE Join(_, _)
Join(sep, ss) ==
    IF ss = <<>> THEN <<>>
    ELSE IF Len(ss) = 1 THEN ss[1]
    ELSE ss[1] \o sep \o Join(sep, Tail(ss))

\* Index of the first occurrence of c in s, 0 when there is none.
IndexOf(s, c) ==
    IF \E k \in 1..Len(s) : s[k] = c
    THEN CHOOSE k \in 1..Len(s) : s[k] = c /\ \A m \in 1..(k - 1) : s[m] # c
    ELSE 0

\* s[i..] in Python's sense, 1-based.
From(s, i) == SubSeq(s, i, Len(s))

HasPrefix(s, p) == Len(s) >= Len(p) /\ SubSeq(s, 1, Len(p)) = p

\* Whether p occurs in s as a contiguous piece.
Contains(s, p) ==
    \E k \in 0..(Len(s) - Len(p)) : SubSeq(s, k + 1, k + Len(p)) = p

\* str.strip()
RECURSIVE LStrip(_)
LStrip(s) ==
    IF s # <<>> /\ Head(s) \in Whitespace THEN LStrip(Tail(s)) ELSE s

RECURSIVE RStrip(_)
RStrip(s) ==
    IF s # <<>> /\ s[Len(s)] \in Whitespace
    THEN RStrip(SubSeq(s, 1, Len(s) - 1))
    ELSE s

Strip(s) == RStrip(LStrip(s))

\* str.splitlines(keepends=True); "\n" is the only line boundary of the alphabet.
RECURSIVE splitlines(_)
splitlines(s) ==
    IF s = <<>> THEN <<>>
    ELSE LET n == IndexOf(s, NL)
         IN  IF n = 0 THEN <<s>>
             ELSE <<SubSeq(s, 1, n)>> \o splitlines(From(s, n + 1))

(***************************************************************************)
(* sanitize_filename: each of \ / : * ? " < > | becomes "_".               *)
(***************************************************************************)
ForbiddenChars == {"\\", "/", ":", "*", "?", "\"", "<", ">", "|"}

sanitize_filename(name) ==
    [k \in 1..Len(name) |->
        IF name[k] \in ForbiddenChars THEN "_" ELSE name[k]]

(***************************************************************************)
(* re.match(r"^https?://", url)                                            *)
(***************************************************************************)
UrlSchemeOk(url) ==
    \/ HasPrefix(url, <<"h", "t", "t", "p", ":", "/", "/">>)
    \/ HasPrefix(url, <<"h", "t", "t", "p", "s", ":", "/", "/">>)

(***************************************************************************)
(* extract_readable_text(line)                                             *)
(***************************************************************************)
\* re.sub(r"<.*?>", "", line): from a "<", the nearest ">" with no line
\* break before it closes the piece to delete ("." matches no "\n").
RECURSIVE StripTags(_)
StripTags(s) ==
    IF s = <<>> THEN <<>>
    ELSE IF Head(s) = "<"
         THEN LET j == IndexOf(s, ">")
                  n == IndexOf(s, NL)
              IN  IF j > 0 /\ (n = 0 \/ n > j)
                  THEN StripTags(From(s, j + 1))
                  ELSE <<"<">> \o StripTags(Tail(s))
         ELSE <<Head(s)>> \o StripTags(Tail(s))

\* re.sub(r"\s+", " ", tmp)
RECURSIVE CollapseSpace(_)
CollapseSpace(s) ==
    IF s = <<>> THEN <<>>
    ELSE IF Head(s) \in Whitespace
         THEN <<" ">> \o CollapseSpace(LStrip(s))
         ELSE <<Head(s)>> \o CollapseSpace(Tail(s))

extract_readable_text(line) == Strip(CollapseSpace(StripTags(line)))

\* Escape with only "<" replaced.
RECURSIVE EscapeOpenOnly(_)
EscapeOpenOnly(s) ==
    IF s = <<>> THEN <<>>
    ELSE (IF Head(s) = "<" THEN <<"&", "l", "t", ";">> ELSE <<Head(s)>>)
         \o EscapeOpenOnly(Tail(s))

\* line.replace("<", "&lt;").replace(">", "&gt;")
RECURSIVE Escape(_)
Escape(s) ==
    IF s = <<>> THEN <<>>
    ELSE (CASE Head(s) = "<" -> <<"&", "l", "t", ";">>
            [] Head(s) = ">" -> <<"&", "g", "t", ";">>
            [] OTHER -> <<Head(s)>>) \o Escape(Tail(s))

(***************************************************************************)
(* BeautifulSoup(page_content, "html.parser"), remove_unnecessary_tags and *)
(* get_text(separator="\n"): the text nodes of the page outside script and *)
(* style elements, joined by a line break.  A tag is "<", a letter or "/", *)
(* anything, ">"; every tag ends the text node before it; the content of a *)
(* script or style element runs to its closing tag and is dropped.         *)
(***************************************************************************)
ScriptOpen == <<"<", "s", "c", "r", "i", "p", "t", ">">>

ScriptClose == <<"<", "/", "s", "c", "r", "i", "p", "t", ">">>

StyleOpen == <<"<", "s", "t", "y", "l", "e", ">">>

StyleClose == <<"<", "/", "s", "t", "y", "l", "e", ">">>

\* Length of the tag that starts s, 0 when s starts with no tag.
TagEnd(s) ==
    IF Len(s) >= 2 /\ s[1] = "<" /\ s[2] \in (Letters \cup {"/"})
    THEN IndexOf(s, ">")
    ELSE 0

\* What follows the first occurrence of closer in s; nothing when it never closes.
RECURSIVE AfterClose(_, _)
AfterClose(s, closer) ==
    IF s = <<>> THEN <<>>
    ELSE IF HasPrefix(s, closer) THEN From(s, Len(closer) + 1)
    ELSE AfterClose(Tail(s), closer)

FlushNode(cur, nodes) == IF cur = <<>> THEN nodes ELSE Append(nodes, cur)

RECURSIVE ScanNodes(_, _, _)
ScanNodes(s, cur, nodes) ==
    IF s = <<>> THEN FlushNode(cur, nodes)
    ELSE IF TagEnd(s) > 0
         THEN LET j == TagEnd(s)
                  tag == SubSeq(s, 1, j)
                  rest == From(s, j + 1)
              IN  IF tag = ScriptOpen
                  THEN ScanNodes(AfterClose(rest, ScriptClose), <<>>, FlushNode(cur, nodes))
                  ELSE IF tag = StyleOpen
                  THEN ScanNodes(AfterClose(rest, StyleClose), <<>>, FlushNode(cur, nodes))
                  ELSE ScanNodes(rest, <<>>, FlushNode(cur, nodes))
         ELSE ScanNodes(Tail(s), Append(cur, Head(s)), nodes)

\* The strings of the soup after remove_unnecessary_tags.
TextNodes(page) == ScanNodes(page, <<>>, <<>>)

\* soup_for_diff.get_text(separator="\n")
get_text(page) == Join(<<NL>>, TextNodes(page))

(***************************************************************************)
(* difflib.SequenceMatcher(None, a, b).get_opcodes().  Indices are         *)
(* Python's: 0-based, ranges half-open.  No element is junk: isjunk is     *)
(* None and the autojunk heuristic needs len(b) >= 200.                    *)
(***************************************************************************)
\* Length of the common run of a from i and b from j, inside [.., ahi) x [.., bhi).
RECURSIVE Ext(_, _, _, _, _, _)
Ext(a, b, i, j, ahi, bhi) ==
    IF i < ahi /\ j < bhi /\ a[i + 1] = b[j + 1]
    THEN 1 + Ext(a, b, i + 1, j + 1, ahi, bhi)
    ELSE 0

\* find_longest_match: the longest block, the earliest in a, then the earliest in b.
find_longest_match(a, b, alo, ahi, blo, bhi) ==
    LET cands == (alo..(ahi - 1)) \X (blo..(bhi - 1))
        len(c) == Ext(a, b, c[1], c[2], ahi, bhi)
        hits == {c \in cands : len(c) > 0}
    IN  IF hits = {} THEN <<alo, blo, 0>>
        ELSE LET best == CHOOSE c \in hits :
                            \A d \in hits :
                                \/ len(d) < len(c)
                                \/ /\ len(d) = len(c)
                                   /\ \/ c[1] < d[1]
                                      \/ c[1] = d[1] /\ c[2] <= d[2]
             IN  <<best[1], best[2], len(best)>>

\* The blocks get_matching_blocks finds, in order (its queue, then its sort).
RECURSIVE MatchingBlocksIn(_, _, _, _, _, _)
MatchingBlocksIn(a, b, alo, ahi, blo, bhi) ==
    LET x == find_longest_match(a, b, alo, ahi, blo, bhi)
        i == x[1]
        j == x[2]
        k == x[3]
    IN  IF k = 0 THEN <<>>
        ELSE (IF alo < i /\ blo < j
              THEN MatchingBlocksIn(a, b, alo, i, blo, j)
              ELSE <<>>)
             \o <<x>>
             \o (IF i + k < ahi /\ j + k < bhi
                 THEN MatchingBlocksIn(a, b, i + k, ahi, j + k, bhi)
                 ELSE <<>>)

\* The loop of get_matching_blocks that merges adjacent blocks; cur is (i1, j1, k1).
RECURSIVE CollapseBlocks(_, _, _)
CollapseBlocks(blocks, cur, acc) ==
    IF blocks = <<>>
    THEN IF cur[3] # 0 THEN Append(acc, cur) ELSE acc
    ELSE LET nx == Head(blocks)
         IN  IF cur[1] + cur[3] = nx[1] /\ cur[2] + cur[3] = nx[2]
             THEN CollapseBlocks(Tail(blocks), <<cur[1], cur[2], cur[3] + nx[3]>>, acc)
             ELSE CollapseBlocks(Tail(blocks), nx,
                                 IF cur[3] # 0 THEN Append(acc, cur) ELSE acc)

\* get_matching_blocks without the closing (len(a), len(b), 0) block.
get_matching_blocks_no_sentinel(a, b) ==
    CollapseBlocks(MatchingBlocksIn(a, b, 0, Len(a), 0, Len(b)), <<0, 0, 0>>, <<>>)

get_matching_blocks(a, b) ==
    Append(CollapseBlocks(MatchingBlocksIn(a, b, 0, Len(a), 0, Len(b)),
                          <<0, 0, 0>>, <<>>),
           <<Len(a), Len(b), 0>>)

Opcode(tag, i1, i2, j1, j2) ==
    [op |-> tag, i1 |-> i1, i2 |-> i2, j1 |-> j1, j2 |-> j2]

\* The loop of get_opcodes over the matching blocks, from position (i, j).
RECURSIVE OpcodesFrom(_, _, _)
OpcodesFrom(blocks, i, j) ==
    IF blocks = <<>> THEN <<>>
    ELSE LET ai == Head(blocks)[1]
             bj == Head(blocks)[2]
             size == Head(blocks)[3]
             gap == IF i < ai /\ j < bj THEN <<Opcode("replace", i, ai, j, bj)>>
                    ELSE IF i < ai THEN <<Opcode("delete", i, ai, j, bj)>>
                    ELSE IF j < bj THEN <<Opcode("insert", i, ai, j, bj)>>
                    ELSE <<>>
             same == IF size # 0
                     THEN <<Opcode("equal", ai, ai + size, bj, bj + size)>>
                     ELSE <<>>
         IN  gap \o same \o OpcodesFrom(Tail(blocks), ai + size, bj + size)

get_opcodes(a, b) == OpcodesFrom(get_matching_blocks(a, b), 0, 0)

(***************************************************************************)
(* highlight_html_diff(old_html, new_html)                                 *)
(***************************************************************************)
MetaCharset == "<meta charset='UTF-8'>"

SpanInserted == "<span style=\"background-color: yellow;\">"

DelRemoved == "<del style=\"background-color: #fcc;\">"

SpanModified == "<span style=\"background-color: #faa;\">"

SpanClose == "</span>"

DelClose == "</del>"

Markers == {SpanInserted, DelRemoved, SpanModified}

\* [(orig, extract_readable_text(orig)) for orig in lines], the keys only.
TextOnly(lines) == [k \in 1..Len(lines) |-> extract_readable_text(lines[k])]

\* The opcodes highlight_html_diff iterates over.
DiffOpcodes(old_html, new_html) ==
    get_opcodes(TextOnly(splitlines(old_html)), TextOnly(splitlines(new_html)))

\* RenderOpcode with a replaced line marked as an inserted one.
RenderOpcodeReplaceAsInsert(oc, old_lines, new_lines) ==
    CASE oc.op = "equal" ->
            [k \in 1..(oc.j2 - oc.j1) |-> new_lines[oc.j1 + k]]
      [] oc.op = "delete" ->
            [k \in 1..(oc.i2 - oc.i1) |->
                <<DelRemoved>> \o Escape(old_lines[oc.i1 + k]) \o <<DelClose>>]
      [] OTHER ->
            [k \in 1..(oc.j2 - oc.j1) |->
                <<SpanInserted>> \o Escape(new_lines[oc.j1 + k]) \o <<SpanClose>>]

\* RenderOpcode with the old lines of an equal run in the place of the new ones.
RenderOpcodeEqualOldSide(oc, old_lines, new_lines) ==
    CASE oc.op = "equal" ->
            [k \in 1..(oc.i2 - oc.i1) |-> old_lines[oc.i1 + k]]
      [] oc.op = "insert" ->
            [k \in 1..(oc.j2 - oc.j1) |->
                <<SpanInserted>> \o Escape(new_lines[oc.j1 + k]) \o <<SpanClose>>]
      [] oc.op = "delete" ->
            [k \in 1..(oc.i2 - oc.i1) |->
                <<DelRemoved>> \o Escape(old_lines[oc.i1 + k]) \o <<DelClose>>]
      [] OTHER ->
            [k \in 1..(oc.j2 - oc.j1) |->
                <<SpanModified>> \o Escape(new_lines[oc.j1 + k]) \o <<SpanClose>>]

\* RenderOpcode with the lines of an equal run escaped like the others.
RenderOpcodeEscapesEqual(oc, old_lines, new_lines) ==
    CASE oc.op = "equal" ->
            [k \in 1..(oc.j2 - oc.j1) |-> Escape(new_lines[oc.j1 + k])]
      [] oc.op = "insert" ->
            [k \in 1..(oc.j2 - oc.j1) |->
                <<SpanInserted>> \o Escape(new_lines[oc.j1 + k]) \o <<SpanClose>>]
      [] oc.op = "delete" ->
            [k \in 1..(oc.i2 - oc.i1) |->
                <<DelRemoved>> \o Escape(old_lines[oc.i1 + k]) \o <<DelClose>>]
      [] OTHER ->
            [k \in 1..(oc.j2 - oc.j1) |->
                <<SpanModified>> \o Escape(new_lines[oc.j1 + k]) \o <<SpanClose>>]

\* What one opcode appends to result: one string per line of its range.
RenderOpcode(oc, old_lines, new_lines) ==
    CASE oc.op = "equal" ->
            [k \in 1..(oc.j2 - oc.j1) |-> new_lines[oc.j1 + k]]
      [] oc.op = "insert" ->
            [k \in 1..(oc.j2 - oc.j1) |->
                <<SpanInserted>> \o Escape(new_lines[oc.j1 + k]) \o <<SpanClose>>]
      [] oc.op = "delete" ->
            [k \in 1..(oc.i2 - oc.i1) |->
                <<DelRemoved>> \o Escape(old_lines[oc.i1 + k]) \o <<DelClose>>]
      [] oc.op = "replace" ->
            [k \in 1..(oc.j2 - oc.j1) |->
                <<SpanModified>> \o Escape(new_lines[oc.j1 + k]) \o <<SpanClose>>]
      [] OTHER -> <<>>

RECURSIVE RenderAll(_, _, _)
RenderAll(ocs, old_lines, new_lines) ==
    IF ocs = <<>> THEN <<>>
    ELSE RenderOpcode(Head(ocs), old_lines, new_lines)
         \o RenderAll(Tail(ocs), old_lines, new_lines)

\* The list result at the end of the loop over the opcodes.
DiffResult(old_html, new_html) ==
    RenderAll(DiffOpcodes(old_html, new_html),
              splitlines(old_html), splitlines(new_html))

highlight_html_diff(old_html, new_html) ==
    <<MetaCharset, NL>> \o Cat(DiffResult(old_html, new_html))


(***************************************************************************)
(* The inputs of the model: the rows of the CSV file and the pages the     *)
(* browser can return.                                                     *)
(***************************************************************************)
UrlHttp == <<"h", "t", "t", "p", ":", "/", "/", "u">>

\* An https URL with a blank before it, which strip() removes.
UrlHttps == <<" ", "h", "t", "t", "p", "s", ":", "/", "/", "u">>

UrlFtp == <<"f", "t", "p", ":", "/", "/", "u">>

\* Two names that differ only in a character sanitize_filename replaces, a
\* name with surrounding blanks, and a row whose URL has no http(s) scheme.
Targets ==
    { [name |-> <<"a", "/", "b">>, url |-> UrlHttp],
      [name |-> <<"a", ":", "b">>, url |-> UrlHttps],
      [name |-> <<"c", " ">>, url |-> UrlHttp],
      [name |-> <<"d">>, url |-> UrlFtp] }

RowLists ==
    { r \in UNION { [1..n -> Targets] : n \in 1..MaxRows } :
        \A j, k \in 1..Len(r) : j # k => Strip(r[j].name) # Strip(r[k].name) }

PageAB == <<"A", "\n", "B">>

PageAC == <<"A", "\n", "C">>

\* The same two texts as PageAB and PageAC, in paragraphs on one raw line.
PageParAB == <<"<", "p", ">", "A", "<", "/", "p", ">", "<", "p", ">", "B", "<", "/", "p", ">">>

PageParAC == <<"<", "p", ">", "A", "<", "/", "p", ">", "<", "p", ">", "C", "<", "/", "p", ">">>

\* PageAB followed by a script element: other markup, the same visible text.
PageABScript ==
    <<"A", "\n", "B", "<", "s", "c", "r", "i", "p", "t", ">", "x",
      "<", "/", "s", "c", "r", "i", "p", "t", ">">>

\* PageAB with a blank added: other visible text, the same readable lines.
PageABSpace == <<"A", " ", "\n", "B">>

\* The pages the browser returns in the runs of main().
Pages == {PageAB, PageAC, PageABScript}

\* The lines of PageAC, each inside a tag.
PageTagAC ==
    <<"<", "i", ">", "A", "<", "/", "i", ">", "\n",
      "<", "i", ">", "C", "<", "/", "i", ">">>

\* The pages of a single cycle: every way the text and the raw lines can differ.
CyclePages ==
    {PageAB, PageAC, PageParAB, PageParAC, PageABScript, PageABSpace, PageTagAC}

\* The raw lines the arguments of highlight_html_diff are made of: three
\* readable texts, one of them also inside a tag, one without a line end.
LineA == <<"A", "\n">>

LineB == <<"B", "\n">>

LineTagA == <<"<", "i", ">", "A", "\n">>

LineC == <<"C">>

DiffLines == {LineA, LineB, LineTagA, LineC}

DiffInputs ==
    { Cat(ls) : ls \in UNION { [1..n -> DiffLines] : n \in 0..MaxLines } }

\* Raw lines with a script tag in them, for the escaping of the rendering.
LineScript == <<"<", "s", "c", "r", "i", "p", "t", ">", "x", "\n">>

EscapeLines == {LineA, LineB, LineScript}

EscapeInputs ==
    { Cat(ls) : ls \in UNION { [1..n -> EscapeLines] : n \in 0..MaxLines } }

\* What compute_image_hashes can return for a page: the entries depend on
\* what the image requests answer.
ImageResults ==
    { <<>>, <<[src |-> "logo.png", val |-> "md5:1"]>> }

None == [none |-> TRUE]

NoFile == [file |-> "absent"]

\* No call of a function on its own is under way.
NoCall == [stage |-> "idle"]

\* A file opened for writing whose content was not (fully) written.
Truncated == [file |-> "truncated"]

\* file_name = sanitize_filename(name) + ".json"
FileName(name) == sanitize_filename(name) \o <<".json">>

FileNames == { FileName(Strip(t.name)) : t \in Targets }

\* diff_html_full
DiffDocument(name, diff_html) ==
    <<"<html><head><meta charset=\"UTF-8\"><title>Diff for ">> \o name
    \o <<"</title></head><body>">> \o diff_html \o <<"</body></html>">>

\* diff_filename; the date and the time of day are the clock's.
DiffFileName(name, time) ==
    <<"diff-", time, "-">> \o sanitize_filename(name) \o <<".html">>

(***************************************************************************)
(* State.                                                                  *)
(***************************************************************************)
VARIABLES
    rows,          \* the rows of the CSV file
    run,           \* which run of main() this is
    pc,            \* where main() is
    i,             \* the row of the loop, from 1
    name,          \* locals of the loop body
    url,
    old_data,
    attempt,       \* failed attempts of the running get_page_content_with_selenium
    page_content,
    new_data,
    outcome,       \* what main() reported for each row of this run
    store,         \* DATA_FOLDER: file name -> content
    diffs,         \* the files this run has written to DIFF_HTML_FOLDER, in order
    driver,        \* the browser session: "none", "open", "quit"
    error,         \* the call whose exception ended the run, "none" otherwise
    hl,            \* a call of highlight_html_diff on its own: arguments, locals
    ih,            \* a call of compute_image_hashes on its own
    ft             \* a call of get_page_content_with_selenium on its own

vars == <<rows, run, pc, i, name, url, old_data, attempt, page_content,
          new_data, outcome, store, diffs, driver, error, hl, ih, ft>>

locals == <<name, url, old_data, attempt, page_content, new_data>>

file_path == FileName(name)

Init ==
    /\ rows \in RowLists
    /\ run = 1
    /\ pc = "start"
    /\ i = 0
    /\ name = None
    /\ url = None
    /\ old_data = None
    /\ attempt = 0
    /\ page_content = None
    /\ new_data = None
    /\ outcome = <<>>
    /\ store = [f \in FileNames |-> NoFile]
    /\ diffs = <<>>
    /\ driver = "none"
    /\ error = "none"
    /\ hl = NoCall
    /\ ih = NoCall
    /\ ft = NoCall

(***************************************************************************)
(* main()                                                                  *)
(***************************************************************************)
\* The CSV file does not exist: main() returns before the browser is started.
CsvMissing ==
    /\ pc = "start"
    /\ pc' = "done"
    /\ UNCHANGED <<ft, ih, hl, error, rows, run, i, locals, outcome, store, diffs, driver>>

\* webdriver.Chrome(...), pd.read_csv, and the loop is entered.
StartDriver ==
    /\ pc = "start"
    /\ driver' = "open"
    /\ i' = 1
    /\ outcome' = [k \in 1..Len(rows) |-> "NONE"]
    /\ pc' = "row"
    /\ UNCHANGED <<ft, ih, hl, error, rows, run, locals, store, diffs>>

\* RowSkip with the loop left (break) in the place of continue.
RowSkipEndsLoop ==
    /\ pc = "row"
    /\ i <= Len(rows)
    /\ ~UrlSchemeOk(Strip(rows[i].url))
    /\ name' = Strip(rows[i].name)
    /\ url' = Strip(rows[i].url)
    /\ outcome' = [outcome EXCEPT ![i] = "SKIP"]
    /\ i' = Len(rows) + 1
    /\ UNCHANGED <<ft, ih, hl, error, rows, run, pc, old_data, attempt, page_content,
                   new_data, store, diffs, driver>>

\* A row whose URL does not match ^https?:// is skipped.
RowSkip ==
    /\ pc = "row"
    /\ i <= Len(rows)
    /\ ~UrlSchemeOk(Strip(rows[i].url))
    /\ name' = Strip(rows[i].name)
    /\ url' = Strip(rows[i].url)
    /\ outcome' = [outcome EXCEPT ![i] = "SKIP"]
    /\ i' = i + 1
    /\ UNCHANGED <<ft, ih, hl, error, rows, run, pc, old_data, attempt, page_content, new_data,
                   store, diffs, driver>>

\* RowLoad without the os.path.exists test: opening a missing file raises.
RowLoadNoExistsTest ==
    /\ pc = "row"
    /\ i <= Len(rows)
    /\ UrlSchemeOk(Strip(rows[i].url))
    /\ store[FileName(Strip(rows[i].name))] # Truncated
    /\ name' = Strip(rows[i].name)
    /\ url' = Strip(rows[i].url)
    /\ attempt' = 0
    /\ IF store[FileName(Strip(rows[i].name))] = NoFile
       THEN /\ old_data' = None
            /\ pc' = "crashed"
            /\ error' = "json.load"
       ELSE /\ old_data' = store[FileName(Strip(rows[i].name))]
            /\ pc' = "fetch"
            /\ error' = error
    /\ UNCHANGED <<ft, ih, hl, rows, run, i, page_content, new_data, outcome, store,
                   diffs, driver>>

\* The stored file of the row's name is loaded when it exists.
RowLoad ==
    /\ pc = "row"
    /\ i <= Len(rows)
    /\ UrlSchemeOk(Strip(rows[i].url))
    /\ store[FileName(Strip(rows[i].name))] # Truncated
    /\ name' = Strip(rows[i].name)
    /\ url' = Strip(rows[i].url)
    /\ old_data' = IF store[FileName(Strip(rows[i].name))] = NoFile
                   THEN None
                   ELSE store[FileName(Strip(rows[i].name))]
    /\ attempt' = 0
    /\ pc' = "fetch"
    /\ UNCHANGED <<ft, ih, hl, error, rows, run, i, page_content, new_data, outcome, store,
                   diffs, driver>>

\* json.load raises on a file that holds no complete JSON document; nothing
\* in main() catches it.
RowLoadRaises ==
    /\ pc = "row"
    /\ i <= Len(rows)
    /\ UrlSchemeOk(Strip(rows[i].url))
    /\ store[FileName(Strip(rows[i].name))] = Truncated
    /\ name' = Strip(rows[i].name)
    /\ url' = Strip(rows[i].url)
    /\ old_data' = None
    /\ pc' = "crashed"
    /\ error' = "json.load"
    /\ UNCHANGED <<ft, ih, hl, rows, run, i, attempt, page_content, new_data, outcome,
                   store, diffs, driver>>

\* get_page_content_with_selenium: driver.get succeeds, the page source is returned.
DriverGetOk ==
    /\ pc = "fetch"
    /\ \E p \in Pages : page_content' = p
    /\ attempt' = 0
    /\ pc' = "assemble"
    /\ UNCHANGED <<ft, ih, hl, error, rows, run, i, name, url, old_data, new_data,
                   outcome, store, diffs, driver>>

\* DriverGetFails with the failure recorded in the target's stored file.
DriverGetFailsStoresError ==
    /\ pc = "fetch"
    /\ attempt < MAX_RETRIES
    /\ IF attempt + 1 = MAX_RETRIES
       THEN /\ attempt' = 0
            /\ page_content' = None
            /\ outcome' = [outcome EXCEPT ![i] = "FETCH_FAILED"]
            /\ store' = [store EXCEPT ![file_path] = None]
            /\ i' = i + 1
            /\ pc' = "row"
       ELSE /\ attempt' = attempt + 1
            /\ UNCHANGED <<page_content, outcome, i, pc, store>>
    /\ UNCHANGED <<ft, ih, hl, error, rows, run, name, url, old_data, new_data, diffs,
                   driver>>

\* driver.get raises WebDriverException: the next attempt, or after
\* MAX_RETRIES attempts (None, error), which main() reports and skips.
DriverGetFails ==
    /\ pc = "fetch"
    /\ attempt < MAX_RETRIES
    /\ IF attempt + 1 = MAX_RETRIES
       THEN /\ attempt' = 0
            /\ page_content' = None
            /\ outcome' = [outcome EXCEPT ![i] = "FETCH_FAILED"]
            /\ i' = i + 1
            /\ pc' = "row"
       ELSE /\ attempt' = attempt + 1
            /\ UNCHANGED <<page_content, outcome, i, pc>>
    /\ UNCHANGED <<ft, ih, hl, error, rows, run, name, url, old_data, new_data, store, diffs,
                   driver>>

\* datetime.now() while row i of this run is processed.  The clock only
\* moves forward: a later row, or a row of a later run, reads a later time.
Clock == <<run, i>>

\* The snapshot main() builds from the page, and the text it compares.
NewData(images) ==
    [name |-> name,
     url |-> url,
     retrieved_at |-> Clock,
     html_source |-> page_content,
     text_for_diff |-> get_text(page_content),
     image_hashes |-> images]

\* Decide with the comparison made on the diff of the markup: changed when
\* the diff marks a line.
DecideOnDiffMarkers(old, new) ==
    IF old = None THEN "NO_PRIOR_SNAPSHOT"
    ELSE IF \E k \in 1..Len(highlight_html_diff(old.html_source, new.html_source)) :
               highlight_html_diff(old.html_source, new.html_source)[k] \in Markers
         THEN "CHANGED"
         ELSE "UNCHANGED"

\* Decide with the comparison made on the markup, not on the text.
DecideOnMarkup(old, new) ==
    IF old = None THEN "NO_PRIOR_SNAPSHOT"
    ELSE IF old.html_source # new.html_source THEN "CHANGED"
    ELSE "UNCHANGED"

\* The branch main() takes on old_data and the two texts.
Decide(old, new) ==
    IF old = None THEN "NO_PRIOR_SNAPSHOT"
    ELSE IF old.text_for_diff # new.text_for_diff THEN "CHANGED"
    ELSE "UNCHANGED"

\* Image hashes, text, new_data, and the comparison with old_data.
Assemble ==
    /\ pc = "assemble"
    /\ \E images \in ImageResults :
          /\ new_data' = NewData(images)
          /\ outcome' = [outcome EXCEPT ![i] = Decide(old_data, NewData(images))]
          /\ pc' = IF Decide(old_data, NewData(images)) = "CHANGED"
                   THEN "diff" ELSE "save"
    /\ UNCHANGED <<ft, ih, hl, error, rows, run, i, name, url, old_data, attempt, page_content,
                   store, diffs, driver>>

\* DiffFile with the diff taken over the compared texts, not the markup.
DiffFileOfTexts ==
    [run |-> run,
     row |-> i,
     file |-> DiffFileName(name, Clock),
     text |-> DiffDocument(name,
                 highlight_html_diff(old_data.text_for_diff, new_data.text_for_diff))]

\* The diff file main() writes for a changed text.
DiffFile ==
    [run |-> run,
     row |-> i,
     file |-> DiffFileName(name, Clock),
     text |-> DiffDocument(name,
                 highlight_html_diff(old_data.html_source, new_data.html_source))]

\* highlight_html_diff and the write of the diff file.
EmitDiff ==
    /\ pc = "diff"
    /\ diffs' = Append(diffs, DiffFile)
    /\ pc' = "save"
    /\ UNCHANGED <<ft, ih, hl, error, rows, run, i, locals, outcome, store, driver>>

\* The diff file cannot be written: open or write raises, nothing catches it.
EmitDiffRaises ==
    /\ pc = "diff"
    /\ pc' = "crashed"
    /\ error' = "diff write"
    /\ UNCHANGED <<ft, ih, hl, rows, run, i, locals, outcome, store, diffs, driver>>

\* open(file_path, "w") truncates the stored file.
SaveOpen ==
    /\ pc = "save"
    /\ store' = [store EXCEPT ![file_path] = Truncated]
    /\ pc' = "dump"
    /\ UNCHANGED <<ft, ih, hl, error, rows, run, i, locals, outcome, diffs, driver>>

\* open(file_path, "w") raises: the file is as it was.
SaveOpenRaises ==
    /\ pc = "save"
    /\ pc' = "crashed"
    /\ error' = "open"
    /\ UNCHANGED <<ft, ih, hl, rows, run, i, locals, outcome, store, diffs, driver>>

\* json.dump writes new_data; the loop goes to the next row.
SaveDump ==
    /\ pc = "dump"
    /\ store' = [store EXCEPT ![file_path] = new_data]
    /\ i' = i + 1
    /\ pc' = "row"
    /\ UNCHANGED <<ft, ih, hl, error, rows, run, locals, outcome, diffs, driver>>

\* The write is cut short (an I/O error, the process is killed).
SaveDumpRaises ==
    /\ pc = "dump"
    /\ pc' = "crashed"
    /\ error' = "json.dump"
    /\ UNCHANGED <<ft, ih, hl, rows, run, i, locals, outcome, store, diffs, driver>>

\* After the last row: driver.quit().
Finish ==
    /\ pc = "row"
    /\ i > Len(rows)
    /\ driver' = "quit"
    /\ pc' = "done"
    /\ UNCHANGED <<ft, ih, hl, error, rows, run, i, locals, outcome, store, diffs>>

\* The program is started again on the same folders.
NextRun ==
    /\ pc \in {"done", "crashed"}
    /\ run < MaxRuns
    /\ run' = run + 1
    /\ pc' = "start"
    /\ i' = 0
    /\ name' = None
    /\ url' = None
    /\ old_data' = None
    /\ attempt' = 0
    /\ page_content' = None
    /\ new_data' = None
    /\ outcome' = <<>>
    /\ driver' = "none"
    /\ error' = "none"
    /\ diffs' = <<>>
    /\ UNCHANGED <<ft, ih, hl, rows, store>>

Next ==
    \/ CsvMissing
    \/ StartDriver
    \/ RowSkip
    \/ RowLoad
    \/ RowLoadRaises
    \/ DriverGetOk
    \/ DriverGetFails
    \/ Assemble
    \/ EmitDiff
    \/ EmitDiffRaises
    \/ SaveOpen
    \/ SaveOpenRaises
    \/ SaveDump
    \/ SaveDumpRaises
    \/ Finish
    \/ NextRun

Spec == Init /\ [][Next]_vars

(***************************************************************************)
(* One cycle of one target, from every stored snapshot an earlier cycle    *)
(* can have left and every page of CyclePages.                             *)
(***************************************************************************)
CycleTarget == [name |-> <<"a", "/", "b">>, url |-> UrlHttp]

\* The snapshot a completed cycle stores for CycleTarget and page p.
StoredSnapshot(p, images) ==
    [name |-> Strip(CycleTarget.name),
     url |-> Strip(CycleTarget.url),
     retrieved_at |-> <<0, 1>>,
     html_source |-> p,
     text_for_diff |-> get_text(p),
     image_hashes |-> images]

InitCycle ==
    /\ rows = <<CycleTarget>>
    /\ run = 1
    /\ pc = "row"
    /\ i = 1
    /\ name = None
    /\ url = None
    /\ old_data = None
    /\ attempt = 0
    /\ page_content = None
    /\ new_data = None
    /\ outcome = <<"NONE">>
    /\ \E f \in {NoFile} \cup { StoredSnapshot(p, im) : p \in CyclePages, im \in ImageResults } :
          store = [k \in FileNames |->
                      IF k = FileName(Strip(CycleTarget.name)) THEN f ELSE NoFile]
    /\ diffs = <<>>
    /\ driver = "open"
    /\ error = "none"
    /\ hl = NoCall
    /\ ih = NoCall
    /\ ft = NoCall

\* DriverGetOk with the pages of CyclePages.
DriverGetOkCycle ==
    /\ pc = "fetch"
    /\ \E p \in CyclePages : page_content' = p
    /\ attempt' = 0
    /\ pc' = "assemble"
    /\ UNCHANGED <<ft, ih, hl, error, rows, run, i, name, url, old_data, new_data,
                   outcome, store, diffs, driver>>

NextCycle ==
    \/ RowLoad
    \/ DriverGetOkCycle
    \/ DriverGetFails
    \/ Assemble
    \/ EmitDiff
    \/ EmitDiffRaises
    \/ SaveOpen
    \/ SaveOpenRaises
    \/ SaveDump
    \/ SaveDumpRaises
    \/ Finish

SpecCycle == InitCycle /\ [][NextCycle]_vars

(***************************************************************************)
(* highlight_html_diff on its own, step by step, on every pair of texts of *)
(* DiffInputs.                                                             *)
(***************************************************************************)
InitDiff ==
    /\ rows = <<CycleTarget>>
    /\ run = 1
    /\ pc = "start"
    /\ i = 0
    /\ name = None
    /\ url = None
    /\ old_data = None
    /\ attempt = 0
    /\ page_content = None
    /\ new_data = None
    /\ outcome = <<>>
    /\ store = [f \in FileNames |-> NoFile]
    /\ diffs = <<>>
    /\ driver = "none"
    /\ error = "none"
    /\ ih = NoCall
    /\ ft = NoCall
    /\ \E o \in DiffInputs, n \in DiffInputs :
          hl = [stage |-> "called", old_html |-> o, new_html |-> n]

main_vars == <<rows, run, pc, i, locals, outcome, store, diffs, driver, error>>

\* splitlines, old_pairs / new_pairs, old_text_only / new_text_only.
HlKeys ==
    /\ hl.stage = "called"
    /\ hl' = [stage |-> "keyed",
              old_html |-> hl.old_html,
              new_html |-> hl.new_html,
              old_lines |-> splitlines(hl.old_html),
              new_lines |-> splitlines(hl.new_html),
              old_text_only |-> TextOnly(splitlines(hl.old_html)),
              new_text_only |-> TextOnly(splitlines(hl.new_html))]
    /\ UNCHANGED <<main_vars, ih, ft>>

\* sm = difflib.SequenceMatcher(None, old_text_only, new_text_only); sm.get_opcodes()
HlAlign ==
    /\ hl.stage = "keyed"
    /\ hl' = [stage |-> "aligned",
              old_html |-> hl.old_html,
              new_html |-> hl.new_html,
              old_lines |-> hl.old_lines,
              new_lines |-> hl.new_lines,
              opcodes |-> get_opcodes(hl.old_text_only, hl.new_text_only)]
    /\ UNCHANGED <<main_vars, ih, ft>>

\* The loop over the opcodes (pieces: what each iteration appends to result),
\* and the returned diff_result.
HlRender ==
    /\ hl.stage = "aligned"
    /\ hl' = [stage |-> "rendered",
              old_html |-> hl.old_html,
              new_html |-> hl.new_html,
              old_lines |-> hl.old_lines,
              new_lines |-> hl.new_lines,
              opcodes |-> hl.opcodes,
              pieces |-> [k \in 1..Len(hl.opcodes) |->
                            RenderOpcode(hl.opcodes[k], hl.old_lines, hl.new_lines)],
              result |-> RenderAll(hl.opcodes, hl.old_lines, hl.new_lines),
              diff_result |-> <<MetaCharset, NL>>
                               \o Cat(RenderAll(hl.opcodes, hl.old_lines, hl.new_lines))]
    /\ UNCHANGED <<main_vars, ih, ft>>

\* highlight_html_diff called on texts whose lines can hold a script tag.
InitEscape ==
    /\ rows = <<CycleTarget>>
    /\ run = 1
    /\ pc = "start"
    /\ i = 0
    /\ name = None
    /\ url = None
    /\ old_data = None
    /\ attempt = 0
    /\ page_content = None
    /\ new_data = None
    /\ outcome = <<>>
    /\ store = [f \in FileNames |-> NoFile]
    /\ diffs = <<>>
    /\ driver = "none"
    /\ error = "none"
    /\ ih = NoCall
    /\ ft = NoCall
    /\ \E o \in EscapeInputs, n \in EscapeInputs :
          hl = [stage |-> "called", old_html |-> o, new_html |-> n]

NextDiff ==
    \/ HlKeys
    \/ HlAlign
    \/ HlRender

SpecDiff == InitDiff /\ [][NextDiff]_vars

SpecEscape == InitEscape /\ [][NextDiff]_vars


(***************************************************************************)
(* compute_image_hashes on its own, one img tag per step.  What a request  *)
(* answers is the network's choice, made anew for every request.           *)
(***************************************************************************)
\* The img tags of a page: no src attribute, an empty one, or a reference.
ImgTags ==
    { [has_src |-> FALSE, src |-> ""],
      [has_src |-> TRUE, src |-> ""],
      [has_src |-> TRUE, src |-> "a.png"],
      [has_src |-> TRUE, src |-> "b.png"] }

\* soup.find_all("img")
ImgLists == UNION { [1..n -> ImgTags] : n \in 0..MaxImgs }

\* not img.get("src"): the attribute is missing or empty.
NotSrc(img) == ~img.has_src \/ img.src = ""

\* str(e_req) of the exceptions session.get can raise.
RequestErrors == {"timeout"}

\* resp.status_code other than 200.
ErrorStatuses == {404, 500}

\* resp.content
Contents == {"x", "y"}

\* im.size of the images the answers decode to.
ImageSizes == { <<10, 10>>, <<49, 50>>, <<50, 49>>, <<50, 50>>, <<60, 60>> }

\* str(e_img) when Image.open cannot read the bytes.
CannotIdentify == "cannot identify image file"

\* hashlib.md5(resp.content).hexdigest()
Md5(content) == <<"md5", content>>

EmptyDict == [s \in {} |-> None]

\* img_hashes[src] = value
SetItem(d, k, v) == [s \in DOMAIN d \cup {k} |-> IF s = k THEN v ELSE d[s]]

\* TooSmall with "and" in the place of "or".
TooSmallBoth(w, h) == w < MIN_IMAGE_WIDTH /\ h < MIN_IMAGE_HEIGHT

\* if w < MIN_IMAGE_WIDTH or h < MIN_IMAGE_HEIGHT
TooSmall(w, h) == w < MIN_IMAGE_WIDTH \/ h < MIN_IMAGE_HEIGHT

InitImages ==
    /\ rows = <<CycleTarget>>
    /\ run = 1
    /\ pc = "start"
    /\ i = 0
    /\ name = None
    /\ url = None
    /\ old_data = None
    /\ attempt = 0
    /\ page_content = None
    /\ new_data = None
    /\ outcome = <<>>
    /\ store = [f \in FileNames |-> NoFile]
    /\ diffs = <<>>
    /\ driver = "none"
    /\ error = "none"
    /\ hl = NoCall
    /\ ft = NoCall
    /\ \E l \in ImgLists :
          ih = [stage |-> "loop", images |-> l, idx |-> 0,
                img_hashes |-> EmptyDict, log |-> <<>>]

\* The img tag the loop is at, and its src.
ih_img == ih.images[ih.idx + 1]

ih_src == ih_img.src

\* The loop goes on to the next tag with the dict d, the request (if one was
\* made) and its answer added to the log of requests.
IhContinue(d, answer) ==
    ih' = [ih EXCEPT !.idx = ih.idx + 1,
                     !.img_hashes = d,
                     !.log = IF answer = None THEN ih.log
                             ELSE Append(ih.log, [src |-> ih_src, answer |-> answer])]

\* if not src: continue
IhNoSrc ==
    /\ ih.stage = "loop"
    /\ ih.idx < Len(ih.images)
    /\ NotSrc(ih_img)
    /\ IhContinue(ih.img_hashes, None)
    /\ UNCHANGED <<main_vars, hl, ft>>

\* IhRequestRaises with the exception of session.get leaving the function.
IhRequestRaisesUncaught ==
    /\ ih.stage = "loop"
    /\ ih.idx < Len(ih.images)
    /\ ~NotSrc(ih_img)
    /\ \E e \in RequestErrors :
          ih' = [ih EXCEPT !.stage = "raised",
                           !.log = Append(ih.log, [src |-> ih_src,
                                                   answer |-> [kind |-> "raise", e |-> e]])]
    /\ UNCHANGED <<main_vars, hl, ft>>

\* session.get raises: except Exception as e_req.
IhRequestRaises ==
    /\ ih.stage = "loop"
    /\ ih.idx < Len(ih.images)
    /\ ~NotSrc(ih_img)
    /\ \E e \in RequestErrors :
          IhContinue(SetItem(ih.img_hashes, ih_src, <<"Error:", e>>),
                     [kind |-> "raise", e |-> e])
    /\ UNCHANGED <<main_vars, hl, ft>>

\* resp.status_code is not 200.
IhStatusNot200 ==
    /\ ih.stage = "loop"
    /\ ih.idx < Len(ih.images)
    /\ ~NotSrc(ih_img)
    /\ \E code \in ErrorStatuses :
          IhContinue(SetItem(ih.img_hashes, ih_src, <<"ErrorStatus:", code>>),
                     [kind |-> "status", status |-> code])
    /\ UNCHANGED <<main_vars, hl, ft>>

\* Status 200, Image.open raises: except Exception as e_img.
IhDecodeFails ==
    /\ ih.stage = "loop"
    /\ ih.idx < Len(ih.images)
    /\ ~NotSrc(ih_img)
    /\ IhContinue(SetItem(ih.img_hashes, ih_src, <<"ErrorImage:", CannotIdentify>>),
                  [kind |-> "undecodable", status |-> 200, content |-> "x"])
    /\ UNCHANGED <<main_vars, hl, ft>>

\* Status 200 and the bytes are an image: a small one is passed over, any
\* other gets the MD5 of the bytes.
IhDecoded ==
    /\ ih.stage = "loop"
    /\ ih.idx < Len(ih.images)
    /\ ~NotSrc(ih_img)
    /\ \E c \in Contents, wh \in ImageSizes :
          /\ c = "y" => wh = <<60, 60>>
          /\ IhContinue(IF TooSmall(wh[1], wh[2])
                        THEN ih.img_hashes
                        ELSE SetItem(ih.img_hashes, ih_src, Md5(c)),
                        [kind |-> "image", status |-> 200, content |-> c, size |-> wh])
    /\ UNCHANGED <<main_vars, hl, ft>>

\* return img_hashes
IhReturn ==
    /\ ih.stage = "loop"
    /\ ih.idx = Len(ih.images)
    /\ ih' = [ih EXCEPT !.stage = "returned"]
    /\ UNCHANGED <<main_vars, hl, ft>>

NextImages ==
    \/ IhNoSrc
    \/ IhRequestRaises
    \/ IhStatusNot200
    \/ IhDecodeFails
    \/ IhDecoded
    \/ IhReturn

SpecImages == InitImages /\ [][NextImages]_vars


(***************************************************************************)
(* get_page_content_with_selenium on its own, one driver.get per step.     *)
(***************************************************************************)
\* str(e) of the WebDriverException driver.get can raise.
WebDriverErrors == {"timeout", "unreachable"}

\* str(last_exception)
Str(e) == <<"Message: ", e>>

FetchUrls == {UrlHttp, Strip(UrlHttps)}

InitFetch ==
    /\ rows = <<CycleTarget>>
    /\ run = 1
    /\ pc = "start"
    /\ i = 0
    /\ name = None
    /\ url = None
    /\ old_data = None
    /\ attempt = 0
    /\ page_content = None
    /\ new_data = None
    /\ outcome = <<>>
    /\ store = [f \in FileNames |-> NoFile]
    /\ diffs = <<>>
    /\ driver = "none"
    /\ error = "none"
    /\ hl = NoCall
    /\ ih = NoCall
    /\ \E u \in FetchUrls :
          ft = [stage |-> "loop", url |-> u, attempt |-> 0,
                last_exception |-> None, gets |-> <<>>]

\* driver.get(url) succeeds: return driver.page_source, None
FtGetOk ==
    /\ ft.stage = "loop"
    /\ ft.attempt < MAX_RETRIES
    /\ \E p \in Pages :
          ft' = [stage |-> "returned",
                 url |-> ft.url,
                 gets |-> Append(ft.gets, [ok |-> TRUE, url |-> ft.url]),
                 result |-> [ok |-> TRUE, page_content |-> p, error_info |-> None]]
    /\ UNCHANGED <<main_vars, hl, ih>>

\* FtGetFails with the loop left after the first failure.
FtGetFailsOnce ==
    /\ ft.stage = "loop"
    /\ ft.attempt < MAX_RETRIES
    /\ \E e \in WebDriverErrors :
          ft' = [ft EXCEPT !.attempt = MAX_RETRIES,
                           !.last_exception = [e |-> e],
                           !.gets = Append(ft.gets, [ok |-> FALSE, url |-> ft.url, e |-> e])]
    /\ UNCHANGED <<main_vars, hl, ih>>

\* driver.get(url) raises WebDriverException: last_exception = e, next attempt.
FtGetFails ==
    /\ ft.stage = "loop"
    /\ ft.attempt < MAX_RETRIES
    /\ \E e \in WebDriverErrors :
          ft' = [ft EXCEPT !.attempt = ft.attempt + 1,
                           !.last_exception = [e |-> e],
                           !.gets = Append(ft.gets, [ok |-> FALSE, url |-> ft.url, e |-> e])]
    /\ UNCHANGED <<main_vars, hl, ih>>

\* The loop has run MAX_RETRIES times: return None, str(last_exception)
FtGiveUp ==
    /\ ft.stage = "loop"
    /\ ft.attempt = MAX_RETRIES
    /\ ft' = [stage |-> "returned",
              url |-> ft.url,
              gets |-> ft.gets,
              result |-> [ok |-> FALSE, page_content |-> None,
                          error_info |-> Str(ft.last_exception.e)]]
    /\ UNCHANGED <<main_vars, hl, ih>>

NextFetch ==
    \/ FtGetOk
    \/ FtGetFails
    \/ FtGiveUp

\* Each step of the function is taken once it can be: the sleeps are finite
\* and driver.get returns or raises.
SpecFetch == InitFetch /\ [][NextFetch]_vars /\ WF_vars(NextFetch)


(***************************************************************************)
(* Properties.                                                             *)
(***************************************************************************)
\* The diff files this run wrote while it processed row k.
DiffsOf(r, k) == SelectSeq(diffs, LAMBDA d : d.run = r /\ d.row = k)

FetchedOutcomes == {"NO_PRIOR_SNAPSHOT", "UNCHANGED", "CHANGED"}

\* The snapshot is assembled and the cycle of row i is under way.
InCycle == pc \in {"diff", "save", "dump"}

\* Row i - 1 was fetched and its cycle ran to its end: the locals are still its own.
CycleDone == pc \in {"row", "done"} /\ i > 1 /\ outcome[i - 1] \in FetchedOutcomes

\* The row the locals belong to.
cur == IF InCycle THEN i ELSE i - 1

TextChanged == old_data # None /\ old_data.text_for_diff # new_data.text_for_diff

TextSame == old_data # None /\ old_data.text_for_diff = new_data.text_for_diff

\* What the stored file held when the cycle loaded it.
PriorFile == IF old_data = None THEN NoFile ELSE old_data

\* C1: a fetched target whose stored text differs from the new text is
\* reported CHANGED; until the diff file is written the store still holds
\* the prior snapshot; once it is written there is exactly one diff file of
\* this cycle, made from (prior html_source, new html_source), and the store
\* is written only after it; when the cycle ends (no write having raised)
\* the store holds the new snapshot.
C1_ChangedCycle ==
    ((InCycle \/ CycleDone) /\ TextChanged) =>
        /\ outcome[cur] = "CHANGED"
        /\ pc = "diff" => DiffsOf(run, cur) = <<>> /\ store[file_path] = old_data
        /\ pc # "diff" =>
              /\ Len(DiffsOf(run, cur)) = 1
              /\ DiffsOf(run, cur)[1].text =
                    DiffDocument(name, highlight_html_diff(old_data.html_source,
                                                           new_data.html_source))
        /\ pc = "save" => store[file_path] = old_data
        /\ CycleDone => store[file_path] = new_data

C1_Witness ==
    /\ CycleDone
    /\ TextChanged
    /\ outcome[i - 1] = "CHANGED"
    /\ Len(DiffsOf(run, i - 1)) = 1
    /\ store[file_path] = new_data
    /\ old_data.html_source = PageAC
    /\ new_data.html_source = PageABScript

\* C2: a fetched target whose stored text equals the new text is reported
\* UNCHANGED and gets no diff file, and the cycle still writes the new
\* snapshot: the stored time, markup and image hashes are the new capture's.
C2_UnchangedCycle ==
    /\ pc = "diff" => ~TextSame
    /\ ((pc \in {"save", "dump"} \/ CycleDone) /\ TextSame) =>
          /\ outcome[cur] = "UNCHANGED"
          /\ DiffsOf(run, cur) = <<>>
          /\ CycleDone =>
                /\ store[file_path] = new_data
                /\ store[file_path].retrieved_at = <<run, cur>>
                /\ store[file_path].html_source = page_content
                /\ store[file_path].text_for_diff = get_text(page_content)

C2_Witness ==
    /\ CycleDone
    /\ TextSame
    /\ outcome[i - 1] = "UNCHANGED"
    /\ DiffsOf(run, i - 1) = <<>>
    /\ store[file_path] = new_data
    /\ old_data.html_source # new_data.html_source
    /\ old_data.retrieved_at # new_data.retrieved_at
    /\ old_data.image_hashes # new_data.image_hashes

\* C3: old_data is None exactly when the store has no file for the name; such
\* a target, once fetched, is reported NO_PRIOR_SNAPSHOT, gets no diff file,
\* its new snapshot is stored when the cycle ends, and loading raises only
\* on a file that is there (and truncated), never on a missing one.
C3_NoPriorCycle ==
    /\ pc \in {"fetch", "assemble", "diff", "save"} =>
          (old_data = None <=> store[file_path] = NoFile)
    /\ pc = "diff" => old_data # None
    /\ (pc = "crashed" /\ error = "json.load") => store[file_path] = Truncated
    /\ ((pc \in {"save", "dump"} \/ CycleDone) /\ old_data = None) =>
          /\ outcome[cur] = "NO_PRIOR_SNAPSHOT"
          /\ DiffsOf(run, cur) = <<>>
          /\ CycleDone => store[file_path] = new_data

C3_Witness ==
    /\ CycleDone
    /\ old_data = None
    /\ outcome[i - 1] = "NO_PRIOR_SNAPSHOT"
    /\ diffs = <<>>
    /\ store[file_path] = new_data
    /\ error = "none"

\* C4: a fetch is given up only after MAX_RETRIES failed attempts; the target
\* is then reported FETCH_FAILED, the loop is at a later row, the stored file
\* of the target is what the cycle loaded (or still missing), and the cycle
\* wrote no diff file.
C4_FetchFailed ==
    /\ pc = "fetch" => attempt < MAX_RETRIES /\ outcome[i] = "NONE"
    /\ \A k \in 1..Len(outcome) :
          outcome[k] = "FETCH_FAILED" => i > k /\ DiffsOf(run, k) = <<>>
    /\ (pc \in {"row", "done"} /\ i > 1 /\ outcome[i - 1] = "FETCH_FAILED") =>
          /\ store[file_path] = PriorFile
          /\ page_content = None

C4_Witness ==
    /\ Len(outcome) = 2
    /\ outcome[1] = "FETCH_FAILED"
    /\ outcome[2] = "CHANGED"
    /\ pc = "done"
    /\ store[FileName(Strip(rows[1].name))] # NoFile
    /\ rows[1].name # rows[2].name


\* C5: a failure while one target is processed does not stop the run: when
\* the run has ended, no target after the failing one is left unprocessed.
C5_LaterTargetsProcessed ==
    pc = "crashed" => \A k \in (i + 1)..Len(rows) : outcome[k] # "NONE"

\* C6: when the text changed and producing the diff file fails, the new
\* snapshot is stored all the same.
C6_SnapshotKeptWhenDiffFails ==
    (pc = "crashed" /\ error = "diff write") => store[file_path] = new_data

\* C7: when storing the new snapshot fails or is cut short, the stored file
\* is still the prior snapshot (or still missing), never a truncated one.
C7_PriorKeptWhenSaveFails ==
    (pc = "crashed" /\ error \in {"open", "json.dump"}) =>
        store[file_path] = PriorFile

\* C8: the prior snapshot loaded for a target was written for that target's
\* own name.
C8_PriorIsOwnSnapshot ==
    (pc \in {"fetch", "assemble", "diff", "save", "dump"} /\ old_data # None) =>
        old_data.name = name


\* Position k of the text t lies between a marker and the tag that closes it.
InsideMarker(t, k) ==
    \E m \in 1..(k - 1) :
        /\ t[m] \in Markers
        /\ \A n \in (m + 1)..(k - 1) : t[n] \notin {SpanClose, DelClose}

InsideModified(t, k) ==
    \E m \in 1..(k - 1) :
        /\ t[m] = SpanModified
        /\ \A n \in (m + 1)..(k - 1) : t[n] \notin {SpanClose, DelClose}

\* The diff file of the cycle marks C as modified and marks no A.
MarksCNotA ==
    /\ outcome[cur] = "CHANGED"
    /\ Len(DiffsOf(run, cur)) = 1
    /\ LET t == DiffsOf(run, cur)[1].text
       IN  /\ \E k \in 1..Len(t) : t[k] = "C" /\ InsideModified(t, k)
           /\ \E k \in 1..Len(t) : t[k] = "A"
           /\ \A k \in 1..Len(t) : t[k] = "A" => ~InsideMarker(t, k)

\* C9 as claimed: whenever the compared text goes from "A\nB" to "A\nC", the
\* one diff file has a 'modified' marker around C and no marker around A.
C9_MarkerOnChangedTextLine ==
    ( /\ pc \in {"save", "dump"} \/ CycleDone
      /\ old_data # None
      /\ old_data.text_for_diff = <<"A", "\n", "B">>
      /\ new_data.text_for_diff = <<"A", "\n", "C">> ) => MarksCNotA

\* C9 as amended: whenever the target is CHANGED and the lines of the prior
\* and of the new markup have the readable texts (A, B) and (A, C), the one
\* diff file has a 'modified' marker around the escaped markup line of C, and
\* the markup line of A stands outside every marker.
C9_MarkerOnChangedMarkupLine ==
    ( /\ pc \in {"save", "dump"} \/ CycleDone
      /\ TextChanged
      /\ TextOnly(splitlines(old_data.html_source)) = << <<"A">>, <<"B">> >>
      /\ TextOnly(splitlines(new_data.html_source)) = << <<"A">>, <<"C">> >> )
    => MarksCNotA

C9_Witness ==
    /\ CycleDone
    /\ TextChanged
    /\ old_data.html_source = PageABSpace
    /\ new_data.html_source = PageTagAC
    /\ MarksCNotA
    /\ Contains(DiffsOf(run, cur)[1].text,
                <<SpanModified, "&", "l", "t", ";", "i", "&", "g", "t", ";", "C">>)

\* The ranges of the opcodes ocs split [0, la) and [0, lb) in order.
Partitions(ocs, la, lb) ==
    /\ ocs = <<>> <=> (la = 0 /\ lb = 0)
    /\ ocs # <<>> =>
          /\ ocs[1].i1 = 0
          /\ ocs[1].j1 = 0
          /\ ocs[Len(ocs)].i2 = la
          /\ ocs[Len(ocs)].j2 = lb
    /\ \A k \in 1..(Len(ocs) - 1) :
          /\ ocs[k + 1].i1 = ocs[k].i2
          /\ ocs[k + 1].j1 = ocs[k].j2
    /\ \A k \in 1..Len(ocs) :
          /\ ocs[k].i1 <= ocs[k].i2
          /\ ocs[k].j1 <= ocs[k].j2
          /\ ocs[k].i1 < ocs[k].i2 \/ ocs[k].j1 < ocs[k].j2

\* C10: the opcodes the rendering loop goes through start at (0, 0), each
\* starts where the one before it ends on both sides, none is empty, and the
\* last ends at (len(old_lines), len(new_lines)).
C10_OpcodesPartition ==
    hl.stage \in {"aligned", "rendered"} =>
        Partitions(hl.opcodes, Len(hl.old_lines), Len(hl.new_lines))

C10_Witness ==
    /\ hl.stage = "aligned"
    /\ Len(hl.opcodes) >= 3
    /\ \E k \in 1..Len(hl.opcodes) :
          /\ hl.opcodes[k].op = "replace"
          /\ hl.opcodes[k].i2 - hl.opcodes[k].i1 # hl.opcodes[k].j2 - hl.opcodes[k].j1
    /\ \E k \in 1..Len(hl.opcodes) : hl.opcodes[k].op = "delete"
    /\ hl.opcodes[Len(hl.opcodes)].op # "equal"


\* C11: when the old and the new lines have the same non-empty sequence of
\* keys, get_opcodes returns the single opcode equal(0, n, 0, n); the result
\* is then the list of the new lines, and for equal arguments X the returned
\* text is the charset line followed by X itself, with no marker in it.
C11_IdentityLaw ==
    ( /\ hl.stage \in {"aligned", "rendered"}
      /\ hl.old_lines # <<>>
      /\ TextOnly(hl.old_lines) = TextOnly(hl.new_lines) ) =>
        /\ hl.opcodes = <<Opcode("equal", 0, Len(hl.old_lines), 0, Len(hl.new_lines))>>
        /\ hl.stage = "rendered" =>
              /\ hl.result = hl.new_lines
              /\ \A k \in 1..Len(hl.diff_result) : hl.diff_result[k] \notin Markers
              /\ hl.old_html = hl.new_html =>
                    hl.diff_result = <<MetaCharset, NL>> \o hl.old_html

\* Equal arguments of three lines, a repeated line and a line with a tag among them.
C11_Witness ==
    /\ hl.stage = "rendered"
    /\ hl.old_html = hl.new_html
    /\ hl.old_lines = <<LineA, LineTagA, LineA>>
    /\ hl.opcodes = <<Opcode("equal", 0, 3, 0, 3)>>
    /\ hl.diff_result = <<MetaCharset, NL>> \o LineA \o LineTagA \o LineA


\* The raw line that item m of the opcode oc renders.
RenderedLine(oc, m) ==
    IF oc.op = "delete" THEN hl.old_lines[oc.i1 + m] ELSE hl.new_lines[oc.j1 + m]

\* How many "<" and ">" the text has.
RECURSIVE Brackets(_)
Brackets(s) ==
    IF s = <<>> THEN 0
    ELSE (IF Head(s) \in {"<", ">"} THEN 1 ELSE 0) + Brackets(Tail(s))

HasEntities(t) ==
    /\ Contains(t, <<"&", "l", "t", ";", "s", "c", "r", "i", "p", "t", "&", "g", "t", ";">>)

\* C12: what an insert, delete or replace opcode appends for a line is one
\* marker, the line, one closing tag; between the two there is no "<" and no
\* ">" left, so no "<script>", and each "<" or ">" of the line has become a
\* four-character entity.
C12_EscapingSafety ==
    hl.stage = "rendered" =>
        \A k \in 1..Len(hl.opcodes) :
            hl.opcodes[k].op # "equal" =>
                \A m \in 1..Len(hl.pieces[k]) :
                    LET item == hl.pieces[k][m]
                        line == RenderedLine(hl.opcodes[k], m)
                        inner == SubSeq(item, 2, Len(item) - 1)
                    IN  /\ item[1] \in Markers
                        /\ item[Len(item)] \in {SpanClose, DelClose}
                        /\ ~Contains(item, ScriptOpen)
                        /\ Brackets(inner) = 0
                        /\ Len(inner) = Len(line) + 3 * Brackets(line)
                        /\ Contains(line, ScriptOpen) => HasEntities(inner)

\* A script line rendered as modified and a script line rendered as removed.
C12_Witness ==
    /\ hl.stage = "rendered"
    /\ hl.old_lines = <<LineB, LineA, LineScript>>
    /\ hl.new_lines = <<LineScript, LineA>>
    /\ Len(hl.pieces) = 3
    /\ hl.pieces[1] = << <<SpanModified>> \o Escape(LineScript) \o <<SpanClose>> >>
    /\ hl.pieces[3] = << <<DelRemoved>> \o Escape(LineScript) \o <<DelClose>> >>
    /\ HasEntities(hl.pieces[1][1])
    /\ ~Contains(hl.diff_result, ScriptOpen)


\* The requests made so far for the reference s, with their answers.
LogOf(s) == SelectSeq(ih.log, LAMBDA r : r.src = s)

RefSrcs == { img.src : img \in { t \in ImgTags : ~NotSrc(t) } }

\* The answer is an image narrower or lower than 50 pixels.
SmallImage(answer) ==
    answer.kind = "image" /\ (answer.size[1] < 50 \/ answer.size[2] < 50)

\* The answer is an image of at least 50 by 50 pixels.
LargeImage(answer) ==
    answer.kind = "image" /\ answer.size[1] >= 50 /\ answer.size[2] >= 50

\* C13: a reference whose requests were all answered by a decodable image
\* with width < 50 or height < 50 has no entry in img_hashes; a reference
\* whose latest request was answered by a decodable image of at least 50 by
\* 50 has the MD5 of the bytes of that answer as its entry.
C13_SizeFilter ==
    \A s \in RefSrcs :
        LET l == LogOf(s)
        IN  l # <<>> =>
              /\ (\A k \in 1..Len(l) : SmallImage(l[k].answer)) =>
                    s \notin DOMAIN ih.img_hashes
              /\ LargeImage(l[Len(l)].answer) =>
                    /\ s \in DOMAIN ih.img_hashes
                    /\ ih.img_hashes[s] = Md5(l[Len(l)].answer.content)

\* A 10x10 image and a 60x60 image: only the second has an entry.
C13_Witness ==
    /\ ih.stage = "returned"
    /\ Len(ih.log) = 2
    /\ ih.log[1] = [src |-> "a.png",
                    answer |-> [kind |-> "image", status |-> 200, content |-> "x",
                                size |-> <<10, 10>>]]
    /\ ih.log[2] = [src |-> "b.png",
                    answer |-> [kind |-> "image", status |-> 200, content |-> "y",
                                size |-> <<60, 60>>]]
    /\ DOMAIN ih.img_hashes = {"b.png"}
    /\ ih.img_hashes["b.png"] = <<"md5", "y">>

\* The references of the img tags, in order, one for each tag that has one.
RECURSIVE Requests(_)
Requests(imgs) ==
    IF imgs = <<>> THEN <<>>
    ELSE (IF NotSrc(Head(imgs)) THEN <<>> ELSE <<Head(imgs).src>>)
         \o Requests(Tail(imgs))

\* C14: compute_image_hashes is in its loop or has returned, never left by
\* an exception; the requests made are exactly one per img tag with a src
\* among the tags gone through, in their order; a reference whose latest
\* request raised, answered a status other than 200, or answered bytes that
\* are no image has the matching error value as its entry; and the function
\* returns only after the last tag.
C14_ErrorsRecorded ==
    /\ ih.stage \in {"loop", "returned"}
    /\ [k \in 1..Len(ih.log) |-> ih.log[k].src] =
          Requests(SubSeq(ih.images, 1, ih.idx))
    /\ ih.stage = "returned" => ih.idx = Len(ih.images)
    /\ \A s \in RefSrcs :
          LET l == LogOf(s)
          IN  (l # <<>> /\ l[Len(l)].answer.kind \notin {"image"}) =>
                /\ s \in DOMAIN ih.img_hashes
                /\ LET a == l[Len(l)].answer
                   IN  ih.img_hashes[s] =
                          CASE a.kind = "raise" -> <<"Error:", a.e>>
                            [] a.kind = "status" -> <<"ErrorStatus:", a.status>>
                            [] a.kind = "undecodable" ->
                                  <<"ErrorImage:", "cannot identify image file">>

\* A request that raises, then a request answered 404: both recorded, and
\* the function returned.
C14_Witness ==
    /\ ih.stage = "returned"
    /\ Len(ih.log) = 2
    /\ ih.log[1].src = "a.png"
    /\ ih.log[1].answer.kind = "raise"
    /\ ih.log[2].src = "b.png"
    /\ ih.log[2].answer.kind = "status"
    /\ ih.img_hashes["a.png"] = <<"Error:", "timeout">>
    /\ ih.img_hashes["b.png"] = <<"ErrorStatus:", 404>>


\* The calls of driver.get so far and what the function returned fit together.
FetcherResultOk ==
    /\ Len(ft.gets) <= 5
    /\ \A k \in 1..Len(ft.gets) : ft.gets[k].url = ft.url
    /\ \A k \in 1..(Len(ft.gets) - 1) : ~ft.gets[k].ok
    /\ ft.stage = "loop" => \A k \in 1..Len(ft.gets) : ~ft.gets[k].ok
    /\ ft.stage = "returned" =>
          /\ ft.gets # <<>>
          /\ ft.result.ok <=> ft.gets[Len(ft.gets)].ok
          /\ ft.result.ok =>
                /\ ft.result.page_content \in Pages
                /\ ft.result.error_info = None
          /\ ~ft.result.ok =>
                /\ Len(ft.gets) = 5
                /\ ft.result.page_content = None
                /\ ft.result.error_info = <<"Message: ", ft.gets[5].e>>

\* C15: get_page_content_with_selenium calls driver.get at most 5 times, on
\* its url, and no more after a call that succeeded; it returns (page, None)
\* when its last call succeeded and (None, str of the exception of the fifth
\* call) when five calls failed, and in no other case; and it does return.
C15_FetcherTerminates ==
    /\ []FetcherResultOk
    /\ <>(ft.stage = "returned")

\* Five failed calls, the last with another exception than the one before.
C15_Witness ==
    /\ ft.stage = "returned"
    /\ ~ft.result.ok
    /\ Len(ft.gets) = 5
    /\ ft.gets[4].e = "timeout"
    /\ ft.gets[5].e = "unreachable"
    /\ ft.result.error_info = <<"Message: ", "unreachable">>


\* The row the loop is at has a URL without the http or https scheme.
AtMalformedRow == pc = "row" /\ i <= Len(rows) /\ ~UrlSchemeOk(Strip(rows[i].url))

\* C16: the step main() takes at a row whose URL does not start with http://
\* or https:// reports the row skipped and goes to the next row: it starts
\* no fetch, loads no stored file, leaves every stored file and the diff
\* files as they are, and the run goes on; a skipped row is behind the loop
\* and has no diff file.
C16_MalformedRowSkipped ==
    /\ [](\A k \in 1..Len(outcome) :
            outcome[k] = "SKIP" => i > k /\ DiffsOf(run, k) = <<>>)
    /\ [][AtMalformedRow =>
            /\ outcome' = [outcome EXCEPT ![i] = "SKIP"]
            /\ i' = i + 1
            /\ pc' = "row"
            /\ store' = store
            /\ diffs' = diffs
            /\ old_data' = old_data
            /\ attempt' = attempt
            /\ page_content' = page_content
            /\ new_data' = new_data
            /\ error' = error
            /\ driver' = driver]_vars

\* A run that skipped its first row and fetched its second: the skipped
\* name has no stored file.
C16_Witness ==
    /\ pc = "done"
    /\ Len(outcome) = 2
    /\ outcome[1] = "SKIP"
    /\ outcome[2] \in FetchedOutcomes
    /\ store[FileName(Strip(rows[1].name))] = NoFile
    /\ store[FileName(Strip(rows[2].name))] = new_data


\* How many old lines the delete opcodes among ocs cover.
RECURSIVE DeletedLines(_)
DeletedLines(ocs) ==
    IF ocs = <<>> THEN 0
    ELSE (IF Head(ocs).op = "delete" THEN Head(ocs).i2 - Head(ocs).i1 ELSE 0)
         + DeletedLines(Tail(ocs))

\* The strings opcode number k appended are the lines first..first+n-1 of
\* lines, each between the opening and the closing tag given.
Wrapped(k, lines, first, n, open, close) ==
    /\ Len(hl.pieces[k]) = n
    /\ \A m \in 1..n :
          hl.pieces[k][m] = <<open>> \o Escape(lines[first + m]) \o <<close>>

\* C17: an equal opcode appends the new lines j1..j2 as they are; an insert
\* opcode the new lines j1..j2 escaped in the 'inserted' span; a delete opcode
\* the old lines i1..i2 escaped in the 'removed' del; a replace opcode the new
\* lines j1..j2 escaped in the 'modified' span and nothing of the old lines
\* i1..i2.  The result is these strings in opcode order, one for each new
\* line and one for each deleted old line, and the returned text is the
\* charset line followed by them.
C17_RenderPerOpcode ==
    hl.stage = "rendered" =>
        /\ \A k \in 1..Len(hl.opcodes) :
              LET oc == hl.opcodes[k]
              IN  CASE oc.op = "equal" ->
                          /\ Len(hl.pieces[k]) = oc.j2 - oc.j1
                          /\ \A m \in 1..(oc.j2 - oc.j1) :
                                hl.pieces[k][m] = hl.new_lines[oc.j1 + m]
                    [] oc.op = "insert" ->
                          Wrapped(k, hl.new_lines, oc.j1, oc.j2 - oc.j1,
                                  SpanInserted, SpanClose)
                    [] oc.op = "delete" ->
                          Wrapped(k, hl.old_lines, oc.i1, oc.i2 - oc.i1,
                                  DelRemoved, DelClose)
                    [] oc.op = "replace" ->
                          Wrapped(k, hl.new_lines, oc.j1, oc.j2 - oc.j1,
                                  SpanModified, SpanClose)
                    [] OTHER -> FALSE
        /\ hl.result = Cat(hl.pieces)
        /\ Len(hl.result) = Len(hl.new_lines) + DeletedLines(hl.opcodes)
        /\ hl.diff_result = <<MetaCharset, NL>> \o Cat(hl.result)

\* An equal run whose old line has a tag the new line has not, then two old
\* lines replaced by one new line.
C17_Witness ==
    /\ hl.stage = "rendered"
    /\ hl.old_lines = <<LineTagA, LineB, LineB>>
    /\ hl.new_lines = <<LineA, LineC>>
    /\ hl.opcodes = <<Opcode("equal", 0, 1, 0, 1), Opcode("replace", 1, 3, 1, 2)>>
    /\ hl.result = <<LineA, <<SpanModified, "C", SpanClose>> >>


\* The text t has an 'inserted', 'removed' or 'modified' marker.
HasMarker(t) == \E k \in 1..Len(t) : t[k] \in Markers

\* C18: for a fetched target with a prior snapshot, the cycle writes a diff
\* file exactly when text_for_diff of the prior and of the new snapshot
\* differ, whatever their html_source and image_hashes are and whether or
\* not the diff of the markup marks any line.
C18_DecisionOnTextOnly ==
    /\ pc = "diff" => old_data.text_for_diff # new_data.text_for_diff
    /\ ((pc \in {"save", "dump"} \/ CycleDone) /\ old_data # None) =>
          /\ old_data.text_for_diff = new_data.text_for_diff <=>
                DiffsOf(run, cur) = <<>>
          /\ old_data.text_for_diff # new_data.text_for_diff <=>
                Len(DiffsOf(run, cur)) = 1
          /\ outcome[cur] = IF DiffsOf(run, cur) = <<>> THEN "UNCHANGED" ELSE "CHANGED"

\* The text differs by a blank at a line end, the readable lines are the
\* same: a diff file without any marker is written.
C18_Witness ==
    /\ CycleDone
    /\ old_data # None
    /\ old_data.html_source = PageAB
    /\ new_data.html_source = PageABSpace
    /\ old_data.text_for_diff # new_data.text_for_diff
    /\ outcome[cur] = "CHANGED"
    /\ Len(DiffsOf(run, cur)) = 1
    /\ ~HasMarker(DiffsOf(run, cur)[1].text)


\* The stored file of the name of row k.
StoredFor(k) == store[FileName(Strip(rows[k].name))]

\* C19: a cycle that loads its target's own snapshot and fetches the markup
\* that snapshot holds is reported UNCHANGED and writes no diff file; and
\* for every row this run has fetched and finished, the stored file of the
\* row's name is the snapshot taken of that name in that cycle.
C19_RerunStable ==
    /\ ( /\ pc \in {"save", "dump"} \/ CycleDone
         /\ old_data # None
         /\ old_data.name = name
         /\ old_data.html_source = new_data.html_source ) =>
          /\ outcome[cur] = "UNCHANGED"
          /\ DiffsOf(run, cur) = <<>>
    /\ \A k \in 1..Len(outcome) :
          (k < i /\ outcome[k] \in FetchedOutcomes) =>
              /\ StoredFor(k) \notin {NoFile, Truncated}
              /\ StoredFor(k).name = Strip(rows[k].name)
              /\ StoredFor(k).retrieved_at = <<run, k>>

\* C20: a run that has ended, by the end of main() or by an exception, holds
\* no open browser session: either none was created (the CSV file was
\* missing) or driver.quit() was called.
C20_DriverReleased ==
    /\ pc \in {"done", "crashed"} => driver \in {"none", "quit"}
    /\ (pc = "done" /\ i = 0) => driver = "none"


=============================================================================
